---- MODULE Spec2Model ----
(***************************************************************************)
(* Job supervision of the translate-machine extension: the job registry,   *)
(* the process supervisor and the event interpreter of                     *)
(* src/extensions/translate-machine/src/job-manager.ts, together with the  *)
(* translate.output tailing method of index.ts.                            *)
(*                                                                         *)
(* A job object lives on the heap and is referred to by its heap index;    *)
(* the stream, close and error callbacks of a job close over that object,  *)
(* while startJob, cancelJob, getJob and getJobOutput reach it through the *)
(* registry (a Map keyed by the job id).                                   *)
(***************************************************************************)
EXTENDS Integers, Sequences, FiniteSets, TLC

(* ----------------------------- bounds ---------------------------------- *)
MaxJobs == 2            \* job objects created by startJob (Spec)
MaxClock == 2           \* largest value of Date.now()
MaxLines == 1           \* lines the workers emit, over all jobs (Spec)
MaxMaxConcurrent == 2   \* largest configured maxConcurrent
MaxTailJobs == 1        \* job objects created by startJob (SpecTail)
MaxTailLines == 2       \* lines the workers emit, over all jobs (SpecTail)
LongBurst == 198        \* lines the worker writes to stdout in its opening burst (SpecLong)
MaxLongLines == 202     \* lines the worker emits (SpecLong)
MaxEventLines == 7      \* lines the worker writes to stdout (SpecEvents)
MaxNoiseLines == 4      \* lines the worker emits (SpecNoise)
MaxLiveJobs == 2        \* job objects created by startJob (SpecLive)

(* ------------------------ program constants ---------------------------- *)
OutputCap == 200        \* cap of job.outputLines
Undefined == 0          \* an absent completedAt / pid
NullCode == -1          \* close(code = null): the worker died from a signal
PidBase == 1000         \* pids handed out by the operating system

Targets == {"/docs-tw", "/docs-ja"}
Sources == {"/docs-en"}
ScriptPath == "translate.py"
FallbackModel == "haiku"
FallbackTargetLang == "zh-TW, Taiwan usage"   \* stands for the literal of line 91
FallbackParallel == 1
FallbackRetries == 2
FallbackDelay == 3
ExitCodes == {0, 1, NullCode}
ErrorMessages == {"spawn python3 ENOENT"}
NoId == ""
NoFile == "undefined"

LineOk == "{\"event\":\"file_ok\",\"file\":\"a.md\"}"
LineFail == "{\"event\":\"file_fail\",\"file\":\"b.md\"}"
LineInit == "{\"event\":\"init\",\"pending\":3}"
LineStart == "{\"event\":\"file_start\",\"file\":\"a.md\"}"
LineDone == "{\"event\":\"done\"}"
LineOther == "{\"event\":\"skipped\",\"file\":\"c.md\"}"
LineText == "Translating a.md ..."
LineNull == "null"

StdoutLines == {LineOk, LineFail}
StderrLines == {LineOk}
EventLines == {LineInit, LineStart, LineOk, LineFail, LineDone}
NoiseLines == {LineText, LineNull, LineOther}
StderrEventLines == {LineOk, LineFail, LineInit}

VARIABLES
  clock,        \* the value Date.now() returns
  config,       \* JobManagerConfig
  heap,         \* the job objects, in creation order
  procs,        \* the worker process of each job object, with the argument
                \* list it was spawned with and the request that led to it
  jobs,         \* the registry: Map<string, TranslationJob>, insertion-ordered
  processes,    \* the handle table: Map<string, ChildProcess>
  arrived,      \* history: every line appended to each job's buffer
  tailId,       \* the job id the translate.output client is tailing
  tailOffset,   \* the offset the client will send next
  tailGot,      \* every line the client has received so far
  tailObj       \* history: the job object the client's first read resolved to

vars == <<clock, config, heap, procs, jobs, processes, arrived,
          tailId, tailOffset, tailGot, tailObj>>

(* ------------------------------ Map ------------------------------------ *)
\* A JavaScript Map as the sequence of its entries in insertion order.
MapHas(m, k) == \E i \in 1..Len(m) : m[i].key = k

MapGet(m, k) == m[CHOOSE i \in 1..Len(m) : m[i].key = k].ref

\* Map.prototype.set: an existing key keeps its position.
MapSet(m, k, v) ==
  IF MapHas(m, k)
  THEN [i \in 1..Len(m) |-> IF m[i].key = k THEN [key |-> k, ref |-> v] ELSE m[i]]
  ELSE Append(m, [key |-> k, ref |-> v])

MapDelete(m, k) == SelectSeq(m, LAMBDA e : e.key # k)

(* --------------------------- pure helpers ------------------------------ *)
\* `translate-${Date.now()}`
JobId(t) == "translate-" \o ToString(t)

Ids == {JobId(t) : t \in 1..MaxClock + 1} \cup {NoId}

\* JSON.parse(line) followed by the reads of event.event, event.pending and
\* event.file; ok = FALSE when the try block throws.
ParseEvent(line) ==
  CASE line = LineInit  -> [ok |-> TRUE, event |-> "init", pending |-> 3, file |-> NoFile]
    [] line = LineStart -> [ok |-> TRUE, event |-> "file_start", pending |-> 0, file |-> "a.md"]
    [] line = LineOk    -> [ok |-> TRUE, event |-> "file_ok", pending |-> 0, file |-> "a.md"]
    [] line = LineFail  -> [ok |-> TRUE, event |-> "file_fail", pending |-> 0, file |-> "b.md"]
    [] line = LineDone  -> [ok |-> TRUE, event |-> "done", pending |-> 0, file |-> NoFile]
    [] line = LineOther -> [ok |-> TRUE, event |-> "skipped", pending |-> 0, file |-> "c.md"]
    [] OTHER            -> [ok |-> FALSE, event |-> "", pending |-> 0, file |-> NoFile]

\* FoldEvent with file_fail counted as failed only
FoldEvent_failNotCompleted(p, line) ==
  LET e == ParseEvent(line) IN
  IF ~e.ok THEN p
  ELSE CASE e.event = "init"       -> [p EXCEPT !.total = e.pending]
         [] e.event = "file_start" -> [p EXCEPT !.currentFile = e.file]
         [] e.event = "file_ok"    -> [p EXCEPT !.completed = @ + 1, !.currentFile = e.file]
         [] e.event = "file_fail"  -> [p EXCEPT !.failed = @ + 1, !.currentFile = e.file]
         [] OTHER                  -> p

\* FoldEvent with file_ok taking one failure back
FoldEvent_okRetractsFailure(p, line) ==
  LET e == ParseEvent(line) IN
  IF ~e.ok THEN p
  ELSE CASE e.event = "init"       -> [p EXCEPT !.total = e.pending]
         [] e.event = "file_start" -> [p EXCEPT !.currentFile = e.file]
         [] e.event = "file_ok"    -> [p EXCEPT !.completed = @ + 1, !.failed = @ - 1,
                                                !.currentFile = e.file]
         [] e.event = "file_fail"  -> [p EXCEPT !.completed = @ + 1, !.failed = @ + 1,
                                                !.currentFile = e.file]
         [] OTHER                  -> p

\* The switch on event.event in the stdout line handler.
FoldEvent(p, line) ==
  LET e == ParseEvent(line) IN
  IF ~e.ok THEN p
  ELSE CASE e.event = "init"       -> [p EXCEPT !.total = e.pending]
         [] e.event = "file_start" -> [p EXCEPT !.currentFile = e.file]
         [] e.event = "file_ok"    -> [p EXCEPT !.completed = @ + 1, !.currentFile = e.file]
         [] e.event = "file_fail"  -> [p EXCEPT !.completed = @ + 1, !.failed = @ + 1,
                                                !.currentFile = e.file]
         [] OTHER                  -> p

\* outputLines.push(line); if (outputLines.length > 200) outputLines.shift()
PushCapped(buf, line) ==
  LET b == Append(buf, line) IN
  IF Len(b) > OutputCap THEN Tail(b) ELSE b

\* Array.prototype.slice(offset) for an offset >= 0
Slice(s, offset) ==
  IF offset >= Len(s) THEN <<>> ELSE SubSeq(s, offset + 1, Len(s))

Objs == 1..Len(heap)

IsRunning(o) == heap[o].status = "running"

\* runningCount with cancelled jobs still counted
runningCount_countsCancelled ==
  Cardinality({i \in 1..Len(jobs) : heap[jobs[i].ref].status \in {"running", "cancelled"}})

\* [...jobs.values()].filter((j) => j.status === "running").length
runningCount ==
  Cardinality({i \in 1..Len(jobs) : IsRunning(jobs[i].ref)})

\* BusyAt with the loop comparing j.source to the requested target
BusyAt_comparesSource(target) ==
  {i \in 1..Len(jobs) : IsRunning(jobs[i].ref) /\ heap[jobs[i].ref].source = target}

\* The registry positions the target loop of startJob would throw at.
BusyAt(target) ==
  {i \in 1..Len(jobs) : IsRunning(jobs[i].ref) /\ heap[jobs[i].ref].target = target}

\* FirstBusy with the loop throwing at the first entry, running or not
FirstBusy_firstEntry(target) == jobs[1].ref

FirstBusy(target) ==
  jobs[CHOOSE i \in BusyAt(target) : \A k \in BusyAt(target) : i <= k].ref

TotalLines ==
  LET RECURSIVE Sum(_)
      Sum(n) == IF n = 0 THEN 0 ELSE Len(arrived[n]) + Sum(n - 1)
  IN Sum(Len(arrived))

(* ------------------------------ reads ---------------------------------- *)
\* getJob: the heap index of the job, or Undefined
getJob(jobId) == IF MapHas(jobs, jobId) THEN MapGet(jobs, jobId) ELSE Undefined

\* getJobOutput returning the whole buffer whatever the offset
getJobOutput_ignoresOffset(jobId, offset) ==
  IF ~MapHas(jobs, jobId) THEN <<>>
  ELSE heap[MapGet(jobs, jobId)].outputLines

getJobOutput(jobId, offset) ==
  IF ~MapHas(jobs, jobId) THEN <<>>
  ELSE Slice(heap[MapGet(jobs, jobId)].outputLines, offset)

(* ------------------------ options and arguments ----------------------- *)
\* An optional field is the empty sequence when absent (undefined) and the
\* one-element sequence of its value when present.
Absent == <<>>

Present(x) == x # Absent

\* JavaScript truthiness of an optional string, number and boolean
TruthyStr(x) == Present(x) /\ x[1] # ""

TruthyNum(x) == Present(x) /\ x[1] # 0

TruthyBool(x) == Present(x) /\ x[1]

\* a || b || c on optional strings a, b and a literal c
OrElse(a, b, c) == IF TruthyStr(a) THEN a[1] ELSE IF TruthyStr(b) THEN b[1] ELSE c

\* a ?? b ?? c on optional values a, b and a literal c
Coalesce(a, b, c) == IF Present(a) THEN a[1] ELSE IF Present(b) THEN b[1] ELSE c

\* A request that gives source and target and leaves every option out.
BareOptions(source, target) ==
  [source |-> source, target |-> target,
   model |-> Absent, targetLang |-> Absent, sourceLang |-> Absent,
   parallel |-> Absent, retries |-> Absent, delay |-> Absent,
   maxFiles |-> Absent, filePattern |-> Absent, glossary |-> Absent,
   trimSuffix |-> Absent, addSuffix |-> Absent, preserveCode |-> Absent,
   retryFailed |-> Absent, dryRun |-> Absent]

\* A configuration that sets maxConcurrent and leaves every default out.
BareConfig(n) ==
  [scriptPath |-> ScriptPath, maxConcurrent |-> n,
   defaultModel |-> Absent, defaultTargetLang |-> Absent,
   defaultParallel |-> Absent, defaultRetries |-> Absent,
   defaultDelay |-> Absent, preserveCode |-> Absent]

\* if (x) args.push(flag, x)
FlagWith(flag, x) == IF TruthyStr(x) THEN <<flag, x[1]>> ELSE <<>>

\* The condition under which startJob pushes --no-preserve-code.
NoPreserveCode(opts, cfg) ==
  opts.preserveCode = <<FALSE>> \/ cfg.preserveCode = <<FALSE>>

\* The argument list startJob hands to spawn("python3", args).
BuildArgs(opts, cfg) ==
  << cfg.scriptPath,
     "--source", opts.source,
     "--target", opts.target,
     "--model", OrElse(opts.model, cfg.defaultModel, FallbackModel),
     "--target-lang", OrElse(opts.targetLang, cfg.defaultTargetLang, FallbackTargetLang),
     "--parallel", ToString(Coalesce(opts.parallel, cfg.defaultParallel, FallbackParallel)),
     "--retries", ToString(Coalesce(opts.retries, cfg.defaultRetries, FallbackRetries)),
     "--delay", ToString(Coalesce(opts.delay, cfg.defaultDelay, FallbackDelay)),
     "--output-format", "json",
     "--no-interactive",
     "--pause-every", "0" >>
  \o FlagWith("--source-lang", opts.sourceLang)
  \o (IF TruthyNum(opts.maxFiles) /\ opts.maxFiles[1] > 0
      THEN <<"--max-files", ToString(opts.maxFiles[1])>> ELSE <<>>)
  \o FlagWith("--file-pattern", opts.filePattern)
  \o FlagWith("--glossary", opts.glossary)
  \o FlagWith("--trim-suffix", opts.trimSuffix)
  \o FlagWith("--add-suffix", opts.addSuffix)
  \o (IF NoPreserveCode(opts, cfg) THEN <<"--no-preserve-code">> ELSE <<>>)
  \o (IF TruthyBool(opts.retryFailed) THEN <<"--retry-failed">> ELSE <<>>)
  \o (IF TruthyBool(opts.dryRun) THEN <<"--dry-run">> ELSE <<>>)

(* ------------------------------ Init ----------------------------------- *)
Init ==
  /\ clock = 1
  /\ config \in {BareConfig(n) : n \in 1..MaxMaxConcurrent}
  /\ heap = <<>>
  /\ procs = <<>>
  /\ jobs = <<>>
  /\ processes = <<>>
  /\ arrived = <<>>
  /\ tailId = NoId
  /\ tailOffset = 0
  /\ tailGot = <<>>
  /\ tailObj = Undefined

tailVars == <<tailId, tailOffset, tailGot, tailObj>>

(* ----------------------------- startJob -------------------------------- *)
\* startJobResult with the capacity check written runningCount > maxConcurrent
startJobResult_strictCapacity(opts) ==
  IF runningCount > config.maxConcurrent THEN
    [ok |-> FALSE, err |-> "capacity", id |-> NoId]
  ELSE IF BusyAt(opts.target) # {} THEN
    [ok |-> FALSE, err |-> "target-busy", id |-> heap[FirstBusy(opts.target)].id]
  ELSE
    [ok |-> TRUE, err |-> "", id |-> JobId(clock)]

\* What a startJob(opts) call made in the current state gives its caller:
\* one of the two admission errors it throws, or the id of the new job.
startJobResult(opts) ==
  IF runningCount >= config.maxConcurrent THEN
    [ok |-> FALSE, err |-> "capacity", id |-> NoId]
  ELSE IF BusyAt(opts.target) # {} THEN
    [ok |-> FALSE, err |-> "target-busy", id |-> heap[FirstBusy(opts.target)].id]
  ELSE
    [ok |-> TRUE, err |-> "", id |-> JobId(clock)]

\* The job record startJob builds; o is the heap index the object gets.
NewJob(opts, o) ==
  [id |-> JobId(clock),
   status |-> "running",
   source |-> opts.source,
   target |-> opts.target,
   startedAt |-> clock,
   completedAt |-> Undefined,
   progress |-> [total |-> 0, completed |-> 0, failed |-> 0, currentFile |-> NoFile],
   outputLines |-> <<>>,
   pid |-> PidBase + o]

\* startJob with the job record built and the worker spawned before the
\* admission checks, the registration alone being skipped on rejection
startJob_spawnsFirst(opts) ==
  LET o == Len(heap) + 1
      job == NewJob(opts, o)
  IN
  /\ heap' = Append(heap, job)
  /\ procs' = Append(procs, [closed |-> FALSE, errored |-> FALSE, signalled |-> FALSE,
                             args |-> BuildArgs(opts, config), opts |-> opts])
  /\ arrived' = Append(arrived, <<>>)
  /\ IF startJobResult(opts).ok
     THEN /\ processes' = MapSet(processes, job.id, o)
          /\ jobs' = MapSet(jobs, job.id, o)
     ELSE UNCHANGED <<processes, jobs>>
  /\ UNCHANGED <<clock, config, tailVars>>

startJob(opts) ==
  IF ~startJobResult(opts).ok THEN
    UNCHANGED vars
  ELSE
    LET o == Len(heap) + 1
        job == NewJob(opts, o)
    IN
    /\ heap' = Append(heap, job)
    /\ procs' = Append(procs, [closed |-> FALSE, errored |-> FALSE, signalled |-> FALSE,
                               args |-> BuildArgs(opts, config), opts |-> opts])
    /\ arrived' = Append(arrived, <<>>)
    /\ processes' = MapSet(processes, job.id, o)
    /\ jobs' = MapSet(jobs, job.id, o)
    /\ UNCHANGED <<clock, config, tailVars>>

(* ------------------------- stream callbacks ---------------------------- *)
\* rl.on("line") of the worker's stdout, for the job object o
stdoutLine(o, line) ==
  /\ ~procs[o].closed
  /\ heap' = [heap EXCEPT ![o].outputLines = PushCapped(@, line),
                          ![o].progress = FoldEvent(@, line)]
  /\ arrived' = [arrived EXCEPT ![o] = Append(@, line)]
  /\ UNCHANGED <<clock, config, procs, jobs, processes, tailVars>>

\* stderrLine with the line also handed to the event switch
stderrLine_interprets(o, line) ==
  /\ ~procs[o].closed
  /\ heap' = [heap EXCEPT ![o].outputLines = PushCapped(@, "[stderr] " \o line),
                          ![o].progress = FoldEvent(@, line)]
  /\ arrived' = [arrived EXCEPT ![o] = Append(@, "[stderr] " \o line)]
  /\ UNCHANGED <<clock, config, procs, jobs, processes, tailVars>>

\* rlErr.on("line") of the worker's stderr, for the job object o
stderrLine(o, line) ==
  /\ ~procs[o].closed
  /\ heap' = [heap EXCEPT ![o].outputLines = PushCapped(@, "[stderr] " \o line)]
  /\ arrived' = [arrived EXCEPT ![o] = Append(@, "[stderr] " \o line)]
  /\ UNCHANGED <<clock, config, procs, jobs, processes, tailVars>>

(* ------------------------- process callbacks --------------------------- *)
\* CloseStatus written code ? "failed" : "completed", so that null succeeds
CloseStatus_nullIsSuccess(code) ==
  IF code = 0 \/ code = NullCode THEN "completed" ELSE "failed"

\* The status the close handler gives a job that is still running.
CloseStatus(code) == IF code = 0 THEN "completed" ELSE "failed"

\* ClosedJob without the status === "running" test
ClosedJob_overwrites(job, code) ==
  [job EXCEPT !.status = CloseStatus(code), !.completedAt = clock]

\* ClosedJob with the counters cleared when the job is finalized
ClosedJob_resetsProgress(job, code) ==
  [job EXCEPT !.status = IF @ = "running" THEN CloseStatus(code) ELSE @,
              !.completedAt = clock,
              !.progress = [@ EXCEPT !.completed = 0, !.failed = 0]]

\* ClosedJob with a non-zero exit code leaving the status alone
ClosedJob_ignoresFailure(job, code) ==
  [job EXCEPT !.status = IF @ = "running" /\ code = 0 THEN "completed" ELSE @,
              !.completedAt = clock]

\* The job object after the close handler ran on it.
ClosedJob(job, code) ==
  [job EXCEPT !.status = IF @ = "running" THEN CloseStatus(code) ELSE @,
              !.completedAt = clock]

\* proc.on("close") of the job object o
procClose(o, code) ==
  /\ ~procs[o].closed
  /\ heap' = [heap EXCEPT ![o] = ClosedJob(@, code)]
  /\ processes' = MapDelete(processes, heap[o].id)
  /\ procs' = [procs EXCEPT ![o].closed = TRUE]
  /\ UNCHANGED <<clock, config, jobs, arrived, tailVars>>

\* ErroredJob without the status === "running" test
ErroredJob_overwrites(job, msg) ==
  [job EXCEPT !.status = "failed",
              !.completedAt = clock,
              !.outputLines = Append(@, "[error] " \o msg)]

\* The job object after the error handler ran on it.
ErroredJob(job, msg) ==
  [job EXCEPT !.status = IF @ = "running" THEN "failed" ELSE @,
              !.completedAt = clock,
              !.outputLines = Append(@, "[error] " \o msg)]

\* procError without the processes.delete(job.id)
procError_keepsHandle(o, msg) ==
  /\ ~procs[o].closed /\ ~procs[o].errored
  /\ heap' = [heap EXCEPT ![o] = ErroredJob(@, msg)]
  /\ arrived' = [arrived EXCEPT ![o] = Append(@, "[error] " \o msg)]
  /\ procs' = [procs EXCEPT ![o].errored = TRUE]
  /\ UNCHANGED <<clock, config, jobs, processes, tailVars>>

\* proc.on("error") of the job object o
procError(o, msg) ==
  /\ ~procs[o].closed /\ ~procs[o].errored
  /\ heap' = [heap EXCEPT ![o] = ErroredJob(@, msg)]
  /\ arrived' = [arrived EXCEPT ![o] = Append(@, "[error] " \o msg)]
  /\ processes' = MapDelete(processes, heap[o].id)
  /\ procs' = [procs EXCEPT ![o].errored = TRUE]
  /\ UNCHANGED <<clock, config, jobs, tailVars>>

(* ----------------------------- cancelJob ------------------------------- *)
\* cancelJobResult without the status !== "running" test
cancelJobResult_anyKnown(jobId) == MapHas(jobs, jobId)

\* The boolean a cancelJob(jobId) call made in the current state returns.
cancelJobResult(jobId) ==
  MapHas(jobs, jobId) /\ IsRunning(MapGet(jobs, jobId))

\* CancelledJob without the completedAt assignment
CancelledJob_keepsCompletedAt(job) == [job EXCEPT !.status = "cancelled"]

\* The job object after cancelJob marked it.
CancelledJob(job) ==
  [job EXCEPT !.status = "cancelled", !.completedAt = clock]

cancelJob(jobId) ==
  IF ~cancelJobResult(jobId) THEN
    UNCHANGED vars
  ELSE
    LET o == MapGet(jobs, jobId) IN
    /\ procs' = IF MapHas(processes, jobId)
                THEN [procs EXCEPT ![MapGet(processes, jobId)].signalled = TRUE]
                ELSE procs
    /\ heap' = [heap EXCEPT ![o] = CancelledJob(@)]
    /\ processes' = MapDelete(processes, jobId)
    /\ UNCHANGED <<clock, config, jobs, arrived, tailVars>>

(* ------------------------- translate.output ---------------------------- *)
\* A client starts tailing the output of the job id.
tailOpen(id) ==
  /\ tailId = NoId /\ id # NoId
  /\ tailId' = id
  /\ UNCHANGED <<clock, config, heap, procs, jobs, processes, arrived,
                 tailOffset, tailGot, tailObj>>

\* One translate.output request of the client with its current offset, and
\* the client's bookkeeping of the response { lines, offset + lines.length }.
tailRead ==
  LET lines == getJobOutput(tailId, tailOffset) IN
  /\ tailId # NoId
  /\ tailGot' = tailGot \o lines
  /\ tailOffset' = tailOffset + Len(lines)
  /\ tailObj' = IF tailObj = Undefined THEN getJob(tailId) ELSE tailObj
  /\ UNCHANGED <<clock, config, heap, procs, jobs, processes, arrived, tailId>>

(* ------------------------------ clock ---------------------------------- *)
\* Date.now() moves on between two callbacks.
Tick ==
  /\ clock' = clock + 1
  /\ UNCHANGED <<config, heap, procs, jobs, processes, arrived, tailVars>>

(* --------------------------- specifications ---------------------------- *)
StartOptions == {BareOptions(source, target) : source \in Sources, target \in Targets}

StartStep(maxJobs) ==
  \E opts \in StartOptions :
    /\ startJobResult(opts).ok => Len(heap) < maxJobs
    /\ startJob(opts)

StdoutStep(maxLines) ==
  \E o \in Objs, line \in StdoutLines : TotalLines < maxLines /\ stdoutLine(o, line)

StderrStep(maxLines) ==
  \E o \in Objs, line \in StderrLines : TotalLines < maxLines /\ stderrLine(o, line)

CloseStep == \E o \in Objs, code \in ExitCodes : procClose(o, code)

ErrorStep == \E o \in Objs, msg \in ErrorMessages : procError(o, msg)

CancelStep == \E jobId \in Ids : cancelJob(jobId)

TickStep == clock < MaxClock /\ Tick

TailOpenStep == \E id \in Ids : tailOpen(id)

Next ==
  \/ StartStep(MaxJobs)
  \/ StdoutStep(MaxLines)
  \/ StderrStep(MaxLines)
  \/ CloseStep
  \/ ErrorStep
  \/ CancelStep
  \/ TickStep

Spec == Init /\ [][Next]_vars

NextTail ==
  \/ StartStep(MaxTailJobs)
  \/ StdoutStep(MaxTailLines)
  \/ StderrStep(MaxTailLines)
  \/ CloseStep
  \/ ErrorStep
  \/ CancelStep
  \/ TickStep
  \/ TailOpenStep
  \/ tailRead

SpecTail == Init /\ [][NextTail]_vars

\* SpecLong follows the first job through a long run: its worker opens with a
\* burst of LongBurst numbered stdout lines, after which lines on either
\* stream, the error and close events and the tailing client are free to
\* interleave, so that the buffer passes OutputCap.
LongLine(n) == "line " \o ToString(n)

FirstStartStep == heap = <<>> /\ \E opts \in StartOptions : startJob(opts)

LongStdoutStep ==
  \E o \in Objs :
    TotalLines < MaxLongLines /\ stdoutLine(o, LongLine(Len(arrived[o]) + 1))

LongStderrStep ==
  \E o \in Objs :
    /\ LongBurst <= TotalLines /\ TotalLines < MaxLongLines
    /\ stderrLine(o, LongLine(Len(arrived[o]) + 1))

LongErrorStep == LongBurst <= TotalLines /\ ErrorStep

LongCloseStep == LongBurst <= TotalLines /\ CloseStep

LongTailOpenStep == LongBurst <= TotalLines /\ TailOpenStep

LongTailReadStep == LongBurst <= TotalLines /\ tailRead

NextLong ==
  \/ FirstStartStep
  \/ LongStdoutStep
  \/ LongStderrStep
  \/ LongErrorStep
  \/ LongCloseStep
  \/ LongTailOpenStep
  \/ LongTailReadStep

SpecLong == Init /\ [][NextLong]_vars

\* A third specification: one request carrying options is started under a
\* configuration carrying defaults, and its worker exits.
ArgModels == {Absent, <<"opus">>}

ArgDefaultModels == {Absent, <<"sonnet">>}

ArgParallels == {Absent, <<0>>, <<4>>}

ArgDefaultParallels == {Absent, <<8>>}

OptionalBooleans == {Absent, <<TRUE>>, <<FALSE>>}

ArgOptions ==
  {[BareOptions("/docs-en", "/docs-tw") EXCEPT
      !.model = model, !.parallel = parallel, !.preserveCode = preserveCode] :
     model \in ArgModels, parallel \in ArgParallels, preserveCode \in OptionalBooleans}

ArgConfigs ==
  {[BareConfig(1) EXCEPT
      !.defaultModel = model, !.defaultParallel = parallel,
      !.preserveCode = preserveCode] :
     model \in ArgDefaultModels, parallel \in ArgDefaultParallels,
     preserveCode \in OptionalBooleans}

InitArgs ==
  /\ clock = 1
  /\ config \in ArgConfigs
  /\ heap = <<>>
  /\ procs = <<>>
  /\ jobs = <<>>
  /\ processes = <<>>
  /\ arrived = <<>>
  /\ tailId = NoId
  /\ tailOffset = 0
  /\ tailGot = <<>>
  /\ tailObj = Undefined

ArgStartStep == heap = <<>> /\ \E opts \in ArgOptions : startJob(opts)

NextArgs ==
  \/ ArgStartStep
  \/ CloseStep
  \/ TickStep

SpecArgs == InitArgs /\ [][NextArgs]_vars

\* A fourth specification: one job whose worker writes recognized events
\* to stdout and exits.
EventStdoutStep ==
  \E o \in Objs, line \in EventLines :
    Len(arrived[o]) < MaxEventLines /\ stdoutLine(o, line)

NextEvents ==
  \/ FirstStartStep
  \/ EventStdoutStep
  \/ CloseStep

SpecEvents == Init /\ [][NextEvents]_vars

\* A fifth specification: one job whose worker writes, next to file_fail
\* events, stdout lines that are no recognized event and stderr lines whose
\* text is a recognized event; the job may be cancelled and the worker exits.
NoiseStdoutStep ==
  \E o \in Objs, line \in NoiseLines \cup {LineFail} :
    Len(arrived[o]) < MaxNoiseLines /\ stdoutLine(o, line)

NoiseStderrStep ==
  \E o \in Objs, line \in StderrEventLines :
    Len(arrived[o]) < MaxNoiseLines /\ stderrLine(o, line)

NextNoise ==
  \/ FirstStartStep
  \/ NoiseStdoutStep
  \/ NoiseStderrStep
  \/ CancelStep
  \/ CloseStep

SpecNoise == Init /\ [][NextNoise]_vars

\* A sixth specification: jobs without output, under the assumption that
\* every worker process delivers its close event in the end. The operating
\* system reports the exit of every process, so the close handler of a
\* process that has not closed stays enabled until it runs.
NextLive ==
  \/ StartStep(MaxLiveJobs)
  \/ CloseStep
  \/ ErrorStep
  \/ CancelStep
  \/ TickStep

CloseOf(o) == o \in Objs /\ \E code \in ExitCodes : procClose(o, code)

SpecLive ==
  /\ Init
  /\ [][NextLive]_vars
  /\ \A o \in 1..MaxLiveJobs : WF_vars(CloseOf(o))

(* ------------------------------ claims --------------------------------- *)
\* The job objects the registry holds, and those of them that are running,
\* read off the state without the operators startJob and cancelJob use.
Registered == {jobs[i].ref : i \in 1..Len(jobs)}

RunningRegistered == {o \in Registered : heap[o].status = "running"}

HoldersOf(target) == {o \in RunningRegistered : heap[o].target = target}

KnownRunning(jobId) ==
  \E i \in 1..Len(jobs) : jobs[i].key = jobId /\ heap[jobs[i].ref].status = "running"

\* C1: the number of running jobs in the registry never exceeds
\* config.maxConcurrent, and a startJob call made while it equals
\* maxConcurrent is rejected with the capacity error.
C1_RunningWithinCapacity ==
  /\ Cardinality(RunningRegistered) <= config.maxConcurrent
  /\ Cardinality(RunningRegistered) = config.maxConcurrent =>
       \A opts \in StartOptions :
         startJobResult(opts) = [ok |-> FALSE, err |-> "capacity", id |-> NoId]

\* C1 witness: two jobs are running under maxConcurrent = 2.
C1_Witness ==
  config.maxConcurrent = 2 /\ Cardinality(RunningRegistered) = 2

\* C2: no two distinct running jobs of the registry share a target.
C2_TargetExclusive ==
  \A a \in RunningRegistered, b \in RunningRegistered :
    a # b => heap[a].target # heap[b].target

\* C2 witness: two running jobs hold the two targets.
C2_Witness ==
  \E a \in RunningRegistered, b \in RunningRegistered :
    heap[a].target = "/docs-tw" /\ heap[b].target = "/docs-ja"

\* C3 as stated: whenever a running job holds the requested target, a
\* startJob call is rejected with a target-busy error naming that job's id,
\* whatever maxConcurrent is and however many jobs are running.
C3_AlwaysTargetBusy ==
  \A opts \in StartOptions : \A o \in HoldersOf(opts.target) :
    startJobResult(opts) = [ok |-> FALSE, err |-> "target-busy", id |-> heap[o].id]

\* C3 amended: whenever a running job of the registry holds the requested
\* target, a startJob call is rejected: with the capacity error when the
\* running count has reached maxConcurrent (that check comes first), and
\* otherwise with a target-busy error naming that job's id.
C3_BusyOrCapacity ==
  \A opts \in StartOptions : \A o \in HoldersOf(opts.target) :
    startJobResult(opts) =
      IF Cardinality(RunningRegistered) >= config.maxConcurrent
      THEN [ok |-> FALSE, err |-> "capacity", id |-> NoId]
      ELSE [ok |-> FALSE, err |-> "target-busy", id |-> heap[o].id]

\* C3 witness: below capacity, a running job holds a target while an older
\* finished job is registered too, so the target-busy error has a job to name.
C3_Witness ==
  /\ Cardinality(RunningRegistered) < config.maxConcurrent
  /\ \E o \in RunningRegistered : \E f \in Registered \ RunningRegistered :
       heap[f].target = heap[o].target

\* C4: cancelJob on a running job returns true and, in that same step and
\* whether or not the worker has exited, leaves the job cancelled with
\* completedAt set; and no later step, close and error included, takes a job
\* out of cancelled.
C4_CancelIsImmediateAndFinal ==
  [][ /\ \A jobId \in Ids :
           (KnownRunning(jobId) /\ cancelJob(jobId)) =>
             /\ cancelJobResult(jobId)
             /\ heap'[MapGet(jobs, jobId)].status = "cancelled"
             /\ heap'[MapGet(jobs, jobId)].completedAt # Undefined
             /\ procs'[MapGet(jobs, jobId)].closed = procs[MapGet(jobs, jobId)].closed
      /\ \A o \in Objs :
           heap[o].status = "cancelled" => heap'[o].status = "cancelled"
    ]_vars

\* C4 witness: a cancelled job whose worker closed after the cancellation.
C4_Witness ==
  \E o \in Objs : heap[o].status = "cancelled" /\ procs[o].closed

\* C5: cancelJob on an unknown id or on a job that is not running returns
\* false, changes no job, no process handle and no registry entry, and sends
\* no signal.
C5_CancelNoOp ==
  [][ \A jobId \in Ids :
        (~KnownRunning(jobId) /\ cancelJob(jobId)) =>
          /\ ~cancelJobResult(jobId)
          /\ UNCHANGED <<heap, jobs, processes, procs, arrived>>
    ]_vars

\* C5 witness: the registry holds a completed, a failed or a cancelled job
\* whose id a cancelJob call can name, next to an id it does not know.
C5_Witness ==
  /\ \E o \in Registered : heap[o].status \in {"completed", "failed", "cancelled"}
  /\ \E jobId \in Ids : ~MapHas(jobs, jobId)

\* C6: once a job's status is not running, no step changes it.
C6_TerminalAbsorbing ==
  [][ \A o \in Objs :
        heap[o].status # "running" => heap'[o].status = heap[o].status ]_vars

\* C6 witness: a job that failed on an error event and whose close event
\* arrived afterwards.
C6_Witness ==
  \E o \in Objs : heap[o].status = "failed" /\ procs[o].errored /\ procs[o].closed

\* C7: completedAt is set if and only if status is not running.
C7_CompletedAtIffNotRunning ==
  \A o \in Objs :
    (heap[o].completedAt # Undefined) <=> (heap[o].status # "running")

\* C7 witness: a cancelled job whose worker has not exited, next to a
\* running one.
C7_Witness ==
  /\ \E o \in Registered : heap[o].status = "cancelled" /\ ~procs[o].closed
  /\ \E o \in Registered : heap[o].status = "running"

\* C8 as stated: completedAt, once set, is never written with another value.
C8_CompletedAtSetOnce ==
  [][ \A o \in Objs :
        heap[o].completedAt # Undefined =>
          heap'[o].completedAt = heap[o].completedAt ]_vars

\* C9: a close event that finds the job running sets completed for exit
\* code 0 and failed for any other code, null included, and the completedAt
\* it sets is not before startedAt.
C9_CloseSetsStatusFromCode ==
  [][ \A o \in Objs : \A code \in ExitCodes :
        (heap[o].status = "running" /\ procClose(o, code)) =>
          /\ heap'[o].status = (IF code = 0 THEN "completed" ELSE "failed")
          /\ heap'[o].completedAt # Undefined
          /\ heap'[o].completedAt >= heap[o].startedAt
    ]_vars

\* C9 witness: one job completed, and another failed without an error event
\* and so by its exit code.
C9_Witness ==
  /\ \E o \in Objs : heap[o].status = "completed" /\ procs[o].closed
  /\ \E o \in Objs : heap[o].status = "failed" /\ procs[o].closed /\ ~procs[o].errored

\* C10: while the job a client tails has produced at most 200 lines and its
\* id still resolves to it, the lines the client has received are exactly the
\* first tailOffset lines that arrived, in arrival order, and straight after
\* a read they are all the lines that arrived.
C10_TailingExact ==
  [][ ( /\ tailObj' # Undefined
        /\ getJob(tailId)' = tailObj'
        /\ Len(arrived'[tailObj']) <= OutputCap ) =>
      ( /\ tailOffset' <= Len(arrived'[tailObj'])
        /\ tailGot' = SubSeq(arrived'[tailObj'], 1, tailOffset')
        /\ tailRead => tailGot' = arrived'[tailObj'] )
    ]_vars

\* C10 witness: the client has received two lines in two reads' worth of
\* arrivals and is up to date.
C10_Witness ==
  /\ tailObj # Undefined
  /\ Len(tailGot) >= 2
  /\ tailGot = arrived[tailObj]

\* The last n elements of a sequence
LastN(seq, n) == SubSeq(seq, Len(seq) - n + 1, Len(seq))

Min(a, b) == IF a <= b THEN a ELSE b

IsPrefix(a, b) == Len(a) <= Len(b) /\ a = SubSeq(b, 1, Len(a))

\* C11 as stated: the output buffer of every job holds at most 200 lines,
\* whichever of the stdout, stderr and error handlers appended to it.
C11_BufferCapped ==
  \A o \in Objs : Len(heap[o].outputLines) <= OutputCap

\* C12 as stated: the output buffer of every job is the most recent
\* min(n, 200) of the n lines that arrived for it, in arrival order.
C12_BufferIsRecentWindow ==
  \A o \in Objs :
    heap[o].outputLines = LastN(arrived[o], Min(Len(arrived[o]), OutputCap))

\* C13 as stated: a client that has read the job before and has so far
\* received the first lines that arrived, each once and in order, receives
\* with its next read all the lines that arrived since, also once the buffer
\* has passed its cap and drops its oldest lines.
C13_TailingSurvivesEviction ==
  [][ ( /\ tailRead
        /\ tailObj # Undefined
        /\ getJob(tailId) = tailObj
        /\ IsPrefix(tailGot, arrived[tailObj]) ) =>
      tailGot' = arrived[tailObj]
    ]_vars

C15_OneEntryPerStart ==
  /\ Len(jobs) = Len(heap)
  /\ \A o \in Objs : getJob(heap[o].id) = o

\* A startJob(opts) call that admission turns down: the registry is at
\* capacity or a running job of the registry holds the target.
Rejected(opts) ==
  \/ Cardinality(RunningRegistered) >= config.maxConcurrent
  \/ HoldersOf(opts.target) # {}

\* C16: a startJob call rejected by admission spawns no worker, creates no
\* job record and leaves every job, the registry and the handle table as
\* they were.
C16_RejectedStartHasNoEffect ==
  [][ \A opts \in StartOptions :
        (Rejected(opts) /\ startJob(opts)) =>
          UNCHANGED <<heap, procs, arrived, jobs, processes>> ]_vars

\* C16 witness: with a worker alive and its handle in the table, one request
\* would be turned down for its busy target while another would be admitted.
C16_Witness ==
  /\ processes # <<>>
  /\ \E opts \in StartOptions : startJobResult(opts).err = "target-busy"
  /\ \E opts \in StartOptions : startJobResult(opts).ok

\* The job objects whose worker process was spawned and has not exited; a
\* process that raised an error may never have been launched and is left out.
Alive == {o \in Objs : ~procs[o].closed /\ ~procs[o].errored}

\* C17: the number of worker processes alive at once never exceeds
\* config.maxConcurrent, also after a job was cancelled and another started
\* before the cancelled worker exited.
C17_AliveWithinCapacity == Cardinality(Alive) <= config.maxConcurrent

\* C18: an error event of a worker is handled like an exit with a non-zero
\* code: a running job becomes failed, completedAt is set, no handle stays in
\* the table under the job's id, the message is appended to the buffer behind
\* the "[error] " tag, and a cancelled job stays cancelled.
C18_ErrorLikeNonZeroExit ==
  [][ \A o \in Objs : \A msg \in ErrorMessages :
        procError(o, msg) =>
          /\ heap[o].status = "running" => heap'[o].status = "failed"
          /\ heap[o].status = "cancelled" => heap'[o].status = "cancelled"
          /\ heap'[o].status = ClosedJob(heap[o], 1).status
          /\ heap'[o].completedAt # Undefined
          /\ heap'[o].completedAt = ClosedJob(heap[o], 1).completedAt
          /\ ~MapHas(processes', heap[o].id)
          /\ heap'[o].outputLines = Append(heap[o].outputLines, "[error] " \o msg)
    ]_vars

\* C18 witness: one job failed on an error event while its worker had not
\* exited, its handle gone and the tagged line last in its buffer, and
\* another job was cancelled before its worker raised an error.
C18_Witness ==
  /\ \E o \in Objs : \E msg \in ErrorMessages :
       /\ heap[o].status = "failed" /\ procs[o].errored /\ ~procs[o].closed
       /\ ~MapHas(processes, heap[o].id)
       /\ heap[o].outputLines # <<>>
       /\ heap[o].outputLines[Len(heap[o].outputLines)] = "[error] " \o msg
  /\ \E o \in Objs :
       heap[o].status = "cancelled" /\ procs[o].errored /\ heap[o].completedAt # Undefined

\* The arguments a worker was spawned with: whether a flag is among them,
\* and the argument that follows a flag.
HasArg(args, flag) == \E i \in 1..Len(args) : args[i] = flag

ArgAfter(args, flag) == args[(CHOOSE i \in 1..Len(args) : args[i] = flag) + 1]

\* The value in force for an option: the request's when it gives one, else
\* the configuration's when it gives one, else the fallback.
Effective(requested, default, fallback) ==
  IF requested # Absent THEN requested[1]
  ELSE IF default # Absent THEN default[1]
  ELSE fallback

\* C19: every worker is spawned with the model and the parallelism in force
\* under "request > configuration > fallback", and with --no-preserve-code
\* exactly when the preserveCode in force under that precedence, whose
\* fallback is true, is false.
C19_DefaultingPrecedence ==
  \A o \in Objs :
    LET args == procs[o].args
        opts == procs[o].opts
    IN
    /\ ArgAfter(args, "--model") = Effective(opts.model, config.defaultModel, FallbackModel)
    /\ ArgAfter(args, "--parallel") =
         ToString(Effective(opts.parallel, config.defaultParallel, FallbackParallel))
    /\ HasArg(args, "--no-preserve-code") <=>
         (Effective(opts.preserveCode, config.preserveCode, TRUE) = FALSE)

\* The stdout lines of the example: init with pending = 3, then three
\* file_start / file_ok pairs.
ExampleRun == <<LineInit, LineStart, LineOk, LineStart, LineOk, LineStart, LineOk>>

\* C20: a stdout event changes progress as tabulated: init sets total to the
\* pending count, file_start sets currentFile, file_ok adds 1 to completed
\* and sets currentFile, file_fail adds 1 to completed and to failed and sets
\* currentFile, done changes nothing, and each leaves the other fields alone;
\* and the example run followed by exit code 0 ends completed with total 3,
\* completed 3, failed 0.
C20_EventTable ==
  [][ \A o \in Objs :
        LET p == heap[o].progress
            q == heap'[o].progress
        IN
        /\ stdoutLine(o, LineInit) => q = [p EXCEPT !.total = 3]
        /\ stdoutLine(o, LineStart) => q = [p EXCEPT !.currentFile = "a.md"]
        /\ stdoutLine(o, LineOk) =>
             q = [total |-> p.total, completed |-> p.completed + 1,
                  failed |-> p.failed, currentFile |-> "a.md"]
        /\ stdoutLine(o, LineFail) =>
             q = [total |-> p.total, completed |-> p.completed + 1,
                  failed |-> p.failed + 1, currentFile |-> "b.md"]
        /\ stdoutLine(o, LineDone) => q = p
        /\ (arrived[o] = ExampleRun /\ procClose(o, 0)) =>
             /\ heap'[o].status = "completed"
             /\ q.total = 3 /\ q.completed = 3 /\ q.failed = 0
    ]_vars

\* C20 witness: the example run has arrived and the worker has exited with
\* the job completed.
C20_Witness ==
  \E o \in Objs :
    /\ arrived[o] = ExampleRun
    /\ procs[o].closed
    /\ heap[o].status = "completed"
    /\ heap[o].progress.completed = 3

\* The last line of a buffer.
Last(buf) == buf[Len(buf)]

\* C21: a stderr line, even one whose text is a recognized event, a stdout
\* line that is not well-formed JSON data of an object, and a stdout event of
\* an unrecognized kind each leave progress, status and completedAt of the
\* job as they were and are stored as the last line of its buffer, the
\* stderr line behind its tag.
C21_NoiseLeavesProgress ==
  [][ \A o \in Objs :
        /\ \A line \in StderrEventLines :
             stderrLine(o, line) =>
               /\ heap'[o].progress = heap[o].progress
               /\ heap'[o].status = heap[o].status
               /\ heap'[o].completedAt = heap[o].completedAt
               /\ Last(heap'[o].outputLines) = "[stderr] " \o line
        /\ \A line \in NoiseLines :
             stdoutLine(o, line) =>
               /\ heap'[o].progress = heap[o].progress
               /\ heap'[o].status = heap[o].status
               /\ heap'[o].completedAt = heap[o].completedAt
               /\ Last(heap'[o].outputLines) = line
    ]_vars

\* C21 witness: after a file_fail event the worker wrote a file_ok event to
\* stderr, a line of plain text and an event of unknown kind, and the
\* counters are those of the file_fail event alone.
C21_Witness ==
  \E o \in Objs :
    /\ arrived[o] = <<LineFail, "[stderr] " \o LineOk, LineText, LineOther>>
    /\ heap[o].outputLines = arrived[o]
    /\ heap[o].progress.completed = 1 /\ heap[o].progress.failed = 1

\* A startJob(opts) call made in the current state is accepted.
Admitted(opts) == startJobResult(opts).ok

\* The requests for the target of the job object o.
RequestsFor(o) == {opts \in StartOptions : opts.target = heap[o].target}

\* C22: a startJob call is accepted if and only if fewer than maxConcurrent
\* jobs of the registry are running and none of them has the requested
\* target; and straight after a running job of the registry is cancelled, or
\* its worker exits, a request for its target is accepted.
C22_AdmissionByRunningOnly ==
  /\ [](\A opts \in StartOptions :
          Admitted(opts) <=>
            /\ Cardinality(RunningRegistered) < config.maxConcurrent
            /\ HoldersOf(opts.target) = {})
  /\ [][ \A o \in RunningRegistered :
           ( \/ cancelJob(heap[o].id)
             \/ \E code \in ExitCodes : procClose(o, code) ) =>
             \A opts \in RequestsFor(o) : Admitted(opts)' ]_vars

\* C22 witness: at maxConcurrent = 1 the registry holds a cancelled job whose
\* worker has not exited and a failed job, both of one target, and a request
\* for that target is accepted.
C22_Witness ==
  /\ config.maxConcurrent = 1
  /\ \E a \in Registered, b \in Registered :
       /\ heap[a].status = "cancelled" /\ ~procs[a].closed
       /\ heap[b].status = "failed"
       /\ heap[a].target = heap[b].target
       /\ \A opts \in RequestsFor(a) : Admitted(opts)

Terminal == {"completed", "failed", "cancelled"}

\* The job object o exists and is running, and exists and is finished.
RunningAt(o) == o \in Objs /\ heap[o].status = "running"

FinishedAt(o) == o \in Objs /\ heap[o].status \in Terminal

\* C23: when every worker delivers its close event in the end, every job
\* that is running is later completed, failed or cancelled; and a job leaves
\* running only in a close, an error or a cancelJob step, never by the
\* passing of time.
C23_RunningLeadsToTerminal ==
  /\ \A o \in 1..MaxLiveJobs : RunningAt(o) ~> FinishedAt(o)
  /\ [][ \A o \in Objs :
           (heap[o].status = "running" /\ heap'[o].status # "running") =>
             \/ \E code \in ExitCodes : procClose(o, code)
             \/ \E msg \in ErrorMessages : procError(o, msg)
             \/ cancelJob(heap[o].id) ]_vars

\* C23 witness: one job left running by cancelJob and its worker has exited
\* since, another left running by an error event before its worker exited.
C23_Witness ==
  /\ \E o \in Objs : heap[o].status = "cancelled" /\ procs[o].closed /\ ~procs[o].errored
  /\ \E o \in Objs : heap[o].status = "failed" /\ procs[o].errored /\ ~procs[o].closed

\* C24: the handle table holds a process under a job id if and only if the
\* registry's job with that id is running.
C24_HandleIffRunning ==
  \A jobId \in Ids : MapHas(processes, jobId) <=> KnownRunning(jobId)

\* C25: for every job, 0 <= progress.failed <= progress.completed.
C25_FailedWithinCompleted ==
  \A o \in Objs :
    /\ 0 <= heap[o].progress.failed
    /\ heap[o].progress.failed <= heap[o].progress.completed

\* C25 witness: a job with two failed files among three completed ones.
C25_Witness ==
  \E o \in Objs : heap[o].progress.failed = 2 /\ heap[o].progress.completed = 3

====
